---- MODULE Spec2Model ----
(***************************************************************************)
(* Debate state machine (src/state-machine.ts), consensus detector         *)
(* (src/consensus/detector.ts) and orchestrator (src/orchestrator.ts) of   *)
(* cli-multi-agent.                                                        *)
(*                                                                         *)
(* Spec     every public operation of DebateStateMachine, called in any    *)
(*          order with any argument.                                       *)
(* SpecRun  one Orchestrator.run(), split at its await points, with        *)
(*          Orchestrator.stop() arriving at any of them and every surface  *)
(*          operation free to raise.                                       *)
(* SpecWait one sendPrompt() and one waitForResponse() of a                *)
(*          BaseAgentAdapter (src/agents/adapter.ts) over a pane whose     *)
(*          text changes freely between two captures.                      *)
(* SpecDetect  detectConsensus() called on any text of up to MaxLen lines, *)
(*          again and again, with calls on other texts in between.         *)
(* SpecWaitStop  the completion wait of a proposer turn, with              *)
(*          Orchestrator.stop() arriving between two of its polls, up to   *)
(*          the exit of the debate loop.                                   *)
(***************************************************************************)
EXTENDS Integers, Sequences, FiniteSets, TLC

VARIABLES
    sm,              \* the DebateStateMachine object: _state, _context, transitions
    lastCall,        \* Spec: the public method called last
    ret,             \* Spec: the value that call returned
    pc,              \* SpecRun: the await run() is suspended at
    isShuttingDown,  \* Orchestrator.isShuttingDown
    proposer,        \* Orchestrator.proposer: "null", "created" or "started"
    reviewer,        \* Orchestrator.reviewer, likewise
    stopPc,          \* the await Orchestrator.stop() is suspended at
    stops,           \* number of Orchestrator.stop() calls so far
    outcome,         \* of run(): "running", "returned" or "raised"
    fault,           \* the error run() caught
    thrown,          \* the error run() rejected with
    agentsReady,     \* how waitForAgentsReady() ended
    response,        \* SpecRun: the AgentResponse the last wait returned
    prompt,          \* SpecRun: the prompt sent last
    inflight,        \* SpecRun: the agent operations run() is awaiting
    waitPc,          \* SpecWait: where the adapter call is
    lastCaptureContent, \* BaseAgentAdapter.lastCaptureContent
    captures,        \* SpecWait: what capturePane() returned to each call
    lastContent,     \* waitForResponse(): local lastContent
    stableCount,     \* waitForResponse(): local stableCount
    waitResult,      \* SpecWait: the AgentResponse waitForResponse() returned
    pollsAtStop,     \* SpecWaitStop: polls made when stop() was requested
    input,           \* SpecDetect: the reviewer text under observation
    verdict,         \* SpecDetect: the ConsensusResult of its last parse
    calls            \* SpecDetect: the texts detectConsensus() was called on

\* ---------------------------------------------------------------- bounds
\* most lines of a reviewer text handed to detectConsensus()
MaxLen == 4
\* most calls of detectConsensus() in a row
MaxCalls == 3
\* most passes of the polling loop before the timeout has elapsed
MaxPolls == 5
\* largest maxRounds a debate is configured with (0 is what `-r 0` gives)
MaxRounds == 2
\* cap on the length of the recorded transition history
MaxHistory == 8
\* number of Orchestrator.stop() calls
MaxStops == 1

\* ----------------------------------------------------------------- types
DebateState ==
    {"idle", "initializing", "proposer_turn", "waiting_proposer",
     "reviewer_turn", "waiting_reviewer", "check_consensus",
     "agreed", "no_consensus", "error", "stopped"}

\* context.error is optional: absent until error() is called
NoError == "<undefined>"

\* error messages a surface or agent operation raises with
Messages == {"Failed to send keys", "Failed to capture pane"}

\* A text is a sequence of lines.  The lines the agents print:
Lines ==
    {"AGREE: YES", "AGREE: NO", "REASON: ok", "REASON:", "FINAL_ANSWER: Z",
     "FEEDBACK: revise", "Looks good, approved", "I reject this", "hello"}

\* texts an agent answers with
Outputs ==
    { <<"REASON: ok", "FINAL_ANSWER: Z", "AGREE: YES">>,
      <<"AGREE: NO", "FEEDBACK: revise">> }

\* ------------------------------------------------- consensus/detector.ts
\* null of a nullable string field
Null == <<"null">>

\* the field marker a line starts with ("" when it starts with none)
marker(line) ==
    CASE line \in {"AGREE: YES", "AGREE: NO"} -> "AGREE"
      [] line \in {"REASON: ok", "REASON:"} -> "REASON"
      [] line = "FINAL_ANSWER: Z" -> "FINAL_ANSWER"
      [] line = "FEEDBACK: revise" -> "FEEDBACK"
      [] OTHER -> ""

\* the text of a line after its marker and the blanks that follow it
body(line) ==
    CASE line = "AGREE: YES" -> "YES"
      [] line = "AGREE: NO" -> "NO"
      [] line = "REASON: ok" -> "ok"
      [] line = "REASON:" -> ""
      [] line = "FINAL_ANSWER: Z" -> "Z"
      [] line = "FEEDBACK: revise" -> "revise"
      [] OTHER -> line

\* index of the first line of text that starts with marker m, 0 if none
firstIndex(text, m) ==
    IF \E i \in 1..Len(text) : marker(text[i]) = m
    THEN CHOOSE i \in 1..Len(text) :
            /\ marker(text[i]) = m
            /\ \A j \in 1..(i - 1) : marker(text[j]) # m
    ELSE 0

\* /M:\s*([\s\S]*?)(?=\n(?:<the other three markers>):|$)/ : the section of
\* marker m runs from its first occurrence to the line before the earliest
\* following line that starts with one of the OTHER markers, or to the end.
\* When nothing follows the marker on its line, \s* takes the line break
\* too: the section starts with the next line, which is then no boundary
\* whatever it starts with, and is the empty string when no line follows.
extractField(text, m) ==
    LET i == firstIndex(text, m)
        first == IF body(text[i]) = "" THEN i + 1 ELSE i
        ends == {j \in (first + 1)..Len(text) : marker(text[j]) \notin {"", m}}
        last == IF ends = {} THEN Len(text)
                ELSE (CHOOSE j \in ends : \A k \in ends : j <= k) - 1
    IN  IF i = 0 THEN Null
        ELSE IF body(text[i]) = "" THEN SubSeq(text, first, last)
        ELSE <<body(text[i])>> \o SubSeq(text, i + 1, last)

hasPositive(text) ==
    \E i \in 1..Len(text) : text[i] = "Looks good, approved"

hasNegative(text) ==
    \E i \in 1..Len(text) : text[i] = "I reject this"

\* detectSemanticAgreement() that takes mixed signals for agreement
detectSemanticAgreement_mixedAgrees(text) ==
    IF hasPositive(text) THEN "true"
    ELSE IF hasNegative(text) THEN "false"
    ELSE "null"

\* boolean | null, null written as "null"
detectSemanticAgreement(text) ==
    IF hasPositive(text) /\ ~hasNegative(text) THEN "true"
    ELSE IF hasNegative(text) /\ ~hasPositive(text) THEN "false"
    ELSE "null"

Max(a, b) == IF a >= b THEN a ELSE b

\* the result detectConsensus() starts from (lines 14-21)
newResult(reviewerOutput) ==
    [agreed |-> FALSE, reason |-> Null, finalAnswer |-> Null,
     feedback |-> Null, confidence |-> 0, rawContent |-> reviewerOutput]

\* detectConsensus() whose AGREE pattern is shared and global: every other
\* call starts past the marker and misses it
detectConsensus_sticky(reviewerOutput) ==
    LET a == IF Len(calls) % 2 = 1 THEN 0
             ELSE firstIndex(reviewerOutput, "AGREE")
        reason == extractField(reviewerOutput, "REASON")
        finalAnswer == extractField(reviewerOutput, "FINAL_ANSWER")
        feedback == extractField(reviewerOutput, "FEEDBACK")
        confidence == (IF a # 0 THEN 40 ELSE 0)
                      + (IF reason # Null THEN 20 ELSE 0)
                      + (IF finalAnswer # Null THEN 20 ELSE 0)
                      + (IF feedback # Null THEN 20 ELSE 0)
        semanticResult == detectSemanticAgreement(reviewerOutput)
    IN  [agreed |-> IF a # 0 THEN reviewerOutput[a] = "AGREE: YES"
                    ELSE semanticResult = "true",
         reason |-> reason,
         finalAnswer |-> finalAnswer,
         feedback |-> feedback,
         confidence |-> IF a = 0 /\ semanticResult # "null"
                        THEN Max(30, (confidence * 7) \div 10)
                        ELSE confidence,
         rawContent |-> reviewerOutput]

\* detectConsensus() that applies the semantic detection whether or not
\* the text has an AGREE marker
detectConsensus_alwaysSemantic(reviewerOutput) ==
    LET a == firstIndex(reviewerOutput, "AGREE")
        reason == extractField(reviewerOutput, "REASON")
        finalAnswer == extractField(reviewerOutput, "FINAL_ANSWER")
        feedback == extractField(reviewerOutput, "FEEDBACK")
        confidence == (IF a # 0 THEN 40 ELSE 0)
                      + (IF reason # Null THEN 20 ELSE 0)
                      + (IF finalAnswer # Null THEN 20 ELSE 0)
                      + (IF feedback # Null THEN 20 ELSE 0)
        semanticResult == detectSemanticAgreement(reviewerOutput)
    IN  [agreed |-> IF semanticResult # "null" THEN semanticResult = "true"
                    ELSE a # 0 /\ reviewerOutput[a] = "AGREE: YES",
         reason |-> reason,
         finalAnswer |-> finalAnswer,
         feedback |-> feedback,
         confidence |-> IF semanticResult # "null"
                        THEN Max(30, (confidence * 7) \div 10)
                        ELSE confidence,
         rawContent |-> reviewerOutput]

\* detectConsensus() that keeps the confidence of the labeled sections when
\* the agreement is inferred
detectConsensus_noPenalty(reviewerOutput) ==
    LET a == firstIndex(reviewerOutput, "AGREE")
        reason == extractField(reviewerOutput, "REASON")
        finalAnswer == extractField(reviewerOutput, "FINAL_ANSWER")
        feedback == extractField(reviewerOutput, "FEEDBACK")
        confidence == (IF a # 0 THEN 40 ELSE 0)
                      + (IF reason # Null THEN 20 ELSE 0)
                      + (IF finalAnswer # Null THEN 20 ELSE 0)
                      + (IF feedback # Null THEN 20 ELSE 0)
        semanticResult == detectSemanticAgreement(reviewerOutput)
    IN  [agreed |-> IF a # 0 THEN reviewerOutput[a] = "AGREE: YES"
                    ELSE semanticResult = "true",
         reason |-> reason,
         finalAnswer |-> finalAnswer,
         feedback |-> feedback,
         confidence |-> IF a = 0 /\ semanticResult # "null"
                        THEN confidence
                        ELSE confidence,
         rawContent |-> reviewerOutput]

\* confidence is kept in hundredths: 0.4 is 40
detectConsensus(reviewerOutput) ==
    LET a == firstIndex(reviewerOutput, "AGREE")
        reason == extractField(reviewerOutput, "REASON")
        finalAnswer == extractField(reviewerOutput, "FINAL_ANSWER")
        feedback == extractField(reviewerOutput, "FEEDBACK")
        confidence == (IF a # 0 THEN 40 ELSE 0)
                      + (IF reason # Null THEN 20 ELSE 0)
                      + (IF finalAnswer # Null THEN 20 ELSE 0)
                      + (IF feedback # Null THEN 20 ELSE 0)
        semanticResult == detectSemanticAgreement(reviewerOutput)
    IN  [agreed |-> IF a # 0 THEN reviewerOutput[a] = "AGREE: YES"
                    ELSE semanticResult = "true",
         reason |-> reason,
         finalAnswer |-> finalAnswer,
         feedback |-> feedback,
         confidence |-> IF a = 0 /\ semanticResult # "null"
                        THEN Max(30, (confidence * 7) \div 10)
                        ELSE confidence,
         rawContent |-> reviewerOutput]

\* verdicts processConsensus is called with
Results == {detectConsensus(t) : t \in Outputs}

\* --------------------------------------------------- state-machine.ts
\* the table with stop() also accepted before the debate has started
VALID_TRANSITIONS_idleStop ==
    [idle |-> {"initializing", "stopped"},
     initializing |-> {"proposer_turn", "error"},
     proposer_turn |-> {"waiting_proposer", "error", "stopped"},
     waiting_proposer |-> {"reviewer_turn", "error", "stopped"},
     reviewer_turn |-> {"waiting_reviewer", "error", "stopped"},
     waiting_reviewer |-> {"check_consensus", "error", "stopped"},
     check_consensus |-> {"proposer_turn", "agreed", "no_consensus", "error"},
     agreed |-> {"stopped"},
     no_consensus |-> {"stopped"},
     error |-> {"stopped"},
     stopped |-> {}]

\* the table with an exhausted debate allowed to play another round
VALID_TRANSITIONS_reopen ==
    [idle |-> {"initializing"},
     initializing |-> {"proposer_turn", "error"},
     proposer_turn |-> {"waiting_proposer", "error", "stopped"},
     waiting_proposer |-> {"reviewer_turn", "error", "stopped"},
     reviewer_turn |-> {"waiting_reviewer", "error", "stopped"},
     waiting_reviewer |-> {"check_consensus", "error", "stopped"},
     check_consensus |-> {"proposer_turn", "agreed", "no_consensus", "error"},
     agreed |-> {"stopped"},
     no_consensus |-> {"stopped", "proposer_turn"},
     error |-> {"stopped"},
     stopped |-> {}]

VALID_TRANSITIONS ==
    [idle |-> {"initializing"},
     initializing |-> {"proposer_turn", "error"},
     proposer_turn |-> {"waiting_proposer", "error", "stopped"},
     waiting_proposer |-> {"reviewer_turn", "error", "stopped"},
     reviewer_turn |-> {"waiting_reviewer", "error", "stopped"},
     waiting_reviewer |-> {"check_consensus", "error", "stopped"},
     check_consensus |-> {"proposer_turn", "agreed", "no_consensus", "error"},
     agreed |-> {"stopped"},
     no_consensus |-> {"stopped"},
     error |-> {"stopped"},
     stopped |-> {}]

\* the object after construction; notified lists the calls made to the
\* onStateChange listener it was given
NewStateMachine(maxRounds) ==
    [state |-> "idle",
     currentRound |-> 0,
     maxRounds |-> maxRounds,
     proposerOutput |-> <<>>,
     reviewerOutput |-> <<>>,
     consensusReached |-> FALSE,
     error |-> NoError,
     rounds |-> <<>>,
     transitions |-> <<>>,
     notified |-> <<>>]

\* Every operation maps the object m to [sm |-> the object after the call,
\* ret |-> the value returned].

\* transition() that warns about an invalid target but forgets to return
transition_noReturn(m, to, event) ==
    [sm |-> [m EXCEPT !.state = to,
                      !.transitions = Append(@, [from |-> m.state,
                                                 to |-> to,
                                                 event |-> event])],
     ret |-> to \in VALID_TRANSITIONS[m.state]]

\* transition() that tells the listener before it consults the table
transition_notifyFirst(m, to, event) ==
    LET told == [m EXCEPT !.notified = Append(@, [from |-> m.state,
                                                  to |-> to])]
    IN  IF to \notin VALID_TRANSITIONS[m.state]
        THEN [sm |-> told, ret |-> FALSE]
        ELSE [sm |-> [told EXCEPT !.state = to,
                                  !.transitions = Append(@, [from |-> m.state,
                                                             to |-> to,
                                                             event |-> event])],
              ret |-> TRUE]

transition(m, to, event) ==
    IF to \notin VALID_TRANSITIONS[m.state]
    THEN [sm |-> m, ret |-> FALSE]
    ELSE [sm |-> [m EXCEPT !.state = to,
                           !.transitions = Append(@, [from |-> m.state,
                                                      to |-> to,
                                                      event |-> event]),
                           !.notified = Append(@, [from |-> m.state,
                                                   to |-> to])],
          ret |-> TRUE]

start(m) ==
    IF m.state # "idle" THEN [sm |-> m, ret |-> FALSE]
    ELSE transition(m, "initializing", "start")

\* initialized() that forgets to open round 1
initialized_noRound(m) ==
    IF m.state # "initializing" THEN [sm |-> m, ret |-> FALSE]
    ELSE transition(m, "proposer_turn", "initialized")

initialized(m) ==
    IF m.state # "initializing" THEN [sm |-> m, ret |-> FALSE]
    ELSE transition([m EXCEPT !.currentRound = 1], "proposer_turn",
                    "initialized")

proposerPrompted(m) ==
    IF m.state # "proposer_turn" THEN [sm |-> m, ret |-> FALSE]
    ELSE transition(m, "waiting_proposer", "proposer_prompted")

\* proposerResponded() that stores the text before it looks at the phase
proposerResponded_storeFirst(m, output) ==
    IF m.state # "waiting_proposer"
    THEN [sm |-> [m EXCEPT !.proposerOutput = output], ret |-> FALSE]
    ELSE transition([m EXCEPT !.proposerOutput = output], "reviewer_turn",
                    "proposer_responded")

proposerResponded(m, output) ==
    IF m.state # "waiting_proposer" THEN [sm |-> m, ret |-> FALSE]
    ELSE transition([m EXCEPT !.proposerOutput = output], "reviewer_turn",
                    "proposer_responded")

reviewerPrompted(m) ==
    IF m.state # "reviewer_turn" THEN [sm |-> m, ret |-> FALSE]
    ELSE transition(m, "waiting_reviewer", "reviewer_prompted")

reviewerResponded(m, output) ==
    IF m.state # "waiting_reviewer" THEN [sm |-> m, ret |-> FALSE]
    ELSE transition([m EXCEPT !.reviewerOutput = output], "check_consensus",
                    "reviewer_responded")

\* the record of a round, as processConsensus() builds it
RoundRecord(m, result) ==
    [round |-> m.currentRound,
     proposerOutput |-> m.proposerOutput,
     reviewerOutput |-> m.reviewerOutput,
     consensus |-> result]

\* processConsensus() that builds the record after it has moved on to the
\* next round
processConsensus_recordLate(m, result) ==
    IF m.state # "check_consensus" THEN [sm |-> m, ret |-> m.state]
    ELSE
      IF result.agreed
      THEN [sm |-> transition([m EXCEPT !.rounds = Append(@, RoundRecord(m, result)),
                                        !.consensusReached = TRUE],
                              "agreed", "consensus_reached").sm,
            ret |-> "agreed"]
      ELSE IF m.currentRound >= m.maxRounds
      THEN [sm |-> transition([m EXCEPT !.rounds = Append(@, RoundRecord(m, result))],
                              "no_consensus", "max_rounds_reached").sm,
            ret |-> "no_consensus"]
      ELSE LET m1 == [m EXCEPT !.currentRound = @ + 1]
           IN  [sm |-> transition([m1 EXCEPT !.rounds = Append(@, RoundRecord(m1, result))],
                                  "proposer_turn", "next_round").sm,
                ret |-> "proposer_turn"]

\* processConsensus() that tests the round limit before the verdict
processConsensus_limitFirst(m, result) ==
    IF m.state # "check_consensus" THEN [sm |-> m, ret |-> m.state]
    ELSE
      LET m1 == [m EXCEPT !.rounds = Append(@, RoundRecord(m, result))]
      IN  IF m1.currentRound >= m1.maxRounds
          THEN [sm |-> transition(m1, "no_consensus",
                                  "max_rounds_reached").sm,
                ret |-> "no_consensus"]
          ELSE IF result.agreed
          THEN [sm |-> transition([m1 EXCEPT !.consensusReached = TRUE],
                                  "agreed", "consensus_reached").sm,
                ret |-> "agreed"]
          ELSE [sm |-> transition([m1 EXCEPT !.currentRound = @ + 1],
                                  "proposer_turn", "next_round").sm,
                ret |-> "proposer_turn"]

\* processConsensus() with > for >= in the round limit
processConsensus_offByOne(m, result) ==
    IF m.state # "check_consensus" THEN [sm |-> m, ret |-> m.state]
    ELSE
      LET m1 == [m EXCEPT !.rounds = Append(@, RoundRecord(m, result))]
      IN  IF result.agreed
          THEN [sm |-> transition([m1 EXCEPT !.consensusReached = TRUE],
                                  "agreed", "consensus_reached").sm,
                ret |-> "agreed"]
          ELSE IF m1.currentRound > m1.maxRounds
          THEN [sm |-> transition(m1, "no_consensus",
                                  "max_rounds_reached").sm,
                ret |-> "no_consensus"]
          ELSE [sm |-> transition([m1 EXCEPT !.currentRound = @ + 1],
                                  "proposer_turn", "next_round").sm,
                ret |-> "proposer_turn"]

\* processConsensus() that forgets to set consensusReached
processConsensus_noFlag(m, result) ==
    IF m.state # "check_consensus" THEN [sm |-> m, ret |-> m.state]
    ELSE
      LET m1 == [m EXCEPT !.rounds = Append(@, RoundRecord(m, result))]
      IN  IF result.agreed
          THEN [sm |-> transition(m1, "agreed", "consensus_reached").sm,
                ret |-> "agreed"]
          ELSE IF m1.currentRound >= m1.maxRounds
          THEN [sm |-> transition(m1, "no_consensus",
                                  "max_rounds_reached").sm,
                ret |-> "no_consensus"]
          ELSE [sm |-> transition([m1 EXCEPT !.currentRound = @ + 1],
                                  "proposer_turn", "next_round").sm,
                ret |-> "proposer_turn"]

\* processConsensus() that counts the round before it tests the limit
processConsensus_incFirst(m, result) ==
    IF m.state # "check_consensus" THEN [sm |-> m, ret |-> m.state]
    ELSE
      LET m1 == [m EXCEPT !.rounds = Append(@, RoundRecord(m, result))]
          m2 == [m1 EXCEPT !.currentRound = @ + 1]
      IN  IF result.agreed
          THEN [sm |-> transition([m1 EXCEPT !.consensusReached = TRUE],
                                  "agreed", "consensus_reached").sm,
                ret |-> "agreed"]
          ELSE IF m2.currentRound > m2.maxRounds
          THEN [sm |-> transition(m2, "no_consensus",
                                  "max_rounds_reached").sm,
                ret |-> "no_consensus"]
          ELSE [sm |-> transition(m2, "proposer_turn", "next_round").sm,
                ret |-> "proposer_turn"]

\* processConsensus() that records a round only when the debate goes on
processConsensus_recordOnContinue(m, result) ==
    IF m.state # "check_consensus" THEN [sm |-> m, ret |-> m.state]
    ELSE
      IF result.agreed
      THEN [sm |-> transition([m EXCEPT !.consensusReached = TRUE],
                              "agreed", "consensus_reached").sm,
            ret |-> "agreed"]
      ELSE IF m.currentRound >= m.maxRounds
      THEN [sm |-> transition(m, "no_consensus", "max_rounds_reached").sm,
            ret |-> "no_consensus"]
      ELSE [sm |-> transition([m EXCEPT !.rounds = Append(@, RoundRecord(m, result)),
                                        !.currentRound = @ + 1],
                              "proposer_turn", "next_round").sm,
            ret |-> "proposer_turn"]

\* processConsensus() that keeps no record of the round that exhausts the
\* debate
processConsensus_dropLastRecord(m, result) ==
    IF m.state # "check_consensus" THEN [sm |-> m, ret |-> m.state]
    ELSE
      LET m1 == [m EXCEPT !.rounds = Append(@, RoundRecord(m, result))]
      IN  IF result.agreed
          THEN [sm |-> transition([m1 EXCEPT !.consensusReached = TRUE],
                                  "agreed", "consensus_reached").sm,
                ret |-> "agreed"]
          ELSE IF m.currentRound >= m.maxRounds
          THEN [sm |-> transition(m, "no_consensus",
                                  "max_rounds_reached").sm,
                ret |-> "no_consensus"]
          ELSE [sm |-> transition([m1 EXCEPT !.currentRound = @ + 1],
                                  "proposer_turn", "next_round").sm,
                ret |-> "proposer_turn"]

\* processConsensus() that never exhausts the debate
processConsensus_noLimit(m, result) ==
    IF m.state # "check_consensus" THEN [sm |-> m, ret |-> m.state]
    ELSE
      LET m1 == [m EXCEPT !.rounds = Append(@, RoundRecord(m, result))]
      IN  IF result.agreed
          THEN [sm |-> transition([m1 EXCEPT !.consensusReached = TRUE],
                                  "agreed", "consensus_reached").sm,
                ret |-> "agreed"]
          ELSE [sm |-> transition([m1 EXCEPT !.currentRound = @ + 1],
                                  "proposer_turn", "next_round").sm,
                ret |-> "proposer_turn"]

\* processConsensus() that plays the rounds that are left after an agreed
\* verdict
processConsensus_keepDebating(m, result) ==
    IF m.state # "check_consensus" THEN [sm |-> m, ret |-> m.state]
    ELSE
      LET m1 == [m EXCEPT !.rounds = Append(@, RoundRecord(m, result)),
                          !.consensusReached = @ \/ result.agreed]
      IN  IF m1.currentRound >= m1.maxRounds
          THEN IF result.agreed
               THEN [sm |-> transition(m1, "agreed", "consensus_reached").sm,
                     ret |-> "agreed"]
               ELSE [sm |-> transition(m1, "no_consensus",
                                       "max_rounds_reached").sm,
                     ret |-> "no_consensus"]
          ELSE [sm |-> transition([m1 EXCEPT !.currentRound = @ + 1],
                                  "proposer_turn", "next_round").sm,
                ret |-> "proposer_turn"]

processConsensus(m, result) ==
    IF m.state # "check_consensus" THEN [sm |-> m, ret |-> m.state]
    ELSE
      LET m1 == [m EXCEPT !.rounds = Append(@, RoundRecord(m, result))]
      IN  IF result.agreed
          THEN [sm |-> transition([m1 EXCEPT !.consensusReached = TRUE],
                                  "agreed", "consensus_reached").sm,
                ret |-> "agreed"]
          ELSE IF m1.currentRound >= m1.maxRounds
          THEN [sm |-> transition(m1, "no_consensus",
                                  "max_rounds_reached").sm,
                ret |-> "no_consensus"]
          ELSE [sm |-> transition([m1 EXCEPT !.currentRound = @ + 1],
                                  "proposer_turn", "next_round").sm,
                ret |-> "proposer_turn"]

\* error() and stop() return nothing
Void == "void"

\* error() that records the message only when the transition is accepted
error_ifAccepted(m, message) ==
    IF "error" \in VALID_TRANSITIONS[m.state]
    THEN [sm |-> transition([m EXCEPT !.error = message], "error",
                            "error").sm,
          ret |-> Void]
    ELSE [sm |-> m, ret |-> Void]

error(m, message) ==
    [sm |-> transition([m EXCEPT !.error = message], "error", "error").sm,
     ret |-> Void]

stop(m) ==
    IF m.state # "stopped"
    THEN [sm |-> transition(m, "stopped", "stopped").sm, ret |-> Void]
    ELSE [sm |-> m, ret |-> Void]

isTerminal(m) == m.state \in {"agreed", "no_consensus", "error", "stopped"}

isRunning(m) == ~isTerminal(m) /\ m.state # "idle"

\* ---------------------------------------------------- agents/adapter.ts
\* A pane text is the sequence of the lines split('\n') gives, so the
\* empty string is the one empty line.  A line is written trimmed: "" is a
\* blank line, ">" the ready prompt of the agent, "> q" the prompt line
\* with the question typed after it, anything else output.
EmptyText == <<"">>

\* what capturePane() can return
Surfaces ==
    { EmptyText,
      <<"old", ">">>,
      <<"old", "> q", "new", ">">>,
      <<"old", "> q", ">">>,
      <<">", "t", "t", "t", "t", "t">> }

\* config.promptPattern, '^[>$#]\s*$', tested on a trimmed line
matchesPrompt(line) == line = ">"

\* let stableCount = 0 ... const stabilityThreshold = 3
stabilityThreshold == 3

\* lines.slice(-5)
TailLines == 5

isResponseComplete(content) ==
    \E i \in 1..Len(content) :
        /\ i > Len(content) - TailLines
        /\ matchesPrompt(content[i])

\* while (newLines.length > 0 && pattern.test(last line)) newLines.pop()
RECURSIVE popPrompts(_)
popPrompts(lines) ==
    IF Len(lines) > 0 /\ matchesPrompt(lines[Len(lines)])
    THEN popPrompts(SubSeq(lines, 1, Len(lines) - 1))
    ELSE lines

\* lines.join('\n').trim(): blank lines at both ends go, and joining no
\* line at all gives the empty string
RECURSIVE joinTrim(_)
joinTrim(lines) ==
    IF Len(lines) = 0 THEN EmptyText
    ELSE IF lines[1] = "" THEN joinTrim(Tail(lines))
    ELSE IF lines[Len(lines)] = ""
         THEN joinTrim(SubSeq(lines, 1, Len(lines) - 1))
    ELSE lines

extractNewContent(lastCapture, currentContent) ==
    IF lastCapture = EmptyText THEN currentContent
    ELSE IF Len(currentContent) > Len(lastCapture)
    THEN joinTrim(popPrompts(SubSeq(currentContent, Len(lastCapture) + 1,
                                    Len(currentContent))))
    ELSE currentContent

\* AgentResponse (duration left out)
AgentResponse(content, complete) ==
    [content |-> content, complete |-> complete]

\* the value of the response slots while nothing has been returned
NoResponse == AgentResponse(EmptyText, FALSE)

\* One pass of the loop of waitForResponse() that never resets the counter
poll_noReset(loop, baseline, currentContent) ==
    IF currentContent = loop.lastContent \/ loop.stableCount > 0
    THEN LET n == loop.stableCount + 1
         IN  IF n >= stabilityThreshold /\ isResponseComplete(currentContent)
             THEN [lastContent |-> currentContent, stableCount |-> n,
                   done |-> TRUE,
                   response |-> AgentResponse(
                       extractNewContent(baseline, currentContent), TRUE)]
             ELSE [lastContent |-> currentContent, stableCount |-> n,
                   done |-> FALSE, response |-> NoResponse]
    ELSE [lastContent |-> currentContent, stableCount |-> 0,
          done |-> FALSE, response |-> NoResponse]

\* One pass that counts the first sight of a snapshot as one stable poll
poll_countFirst(loop, baseline, currentContent) ==
    IF currentContent = loop.lastContent
    THEN LET n == loop.stableCount + 1
         IN  IF n >= stabilityThreshold /\ isResponseComplete(currentContent)
             THEN [lastContent |-> loop.lastContent, stableCount |-> n,
                   done |-> TRUE,
                   response |-> AgentResponse(
                       extractNewContent(baseline, currentContent), TRUE)]
             ELSE [lastContent |-> loop.lastContent, stableCount |-> n,
                   done |-> FALSE, response |-> NoResponse]
    ELSE [lastContent |-> currentContent, stableCount |-> 1,
          done |-> FALSE, response |-> NoResponse]

\* One pass of the while loop of waitForResponse(), from the capture that
\* returned currentContent to the return or the sleep: loop holds the
\* locals lastContent and stableCount, done tells whether the pass returns
\* and response is the AgentResponse it returns
poll(loop, baseline, currentContent) ==
    IF currentContent = loop.lastContent
    THEN LET n == loop.stableCount + 1
         IN  IF n >= stabilityThreshold /\ isResponseComplete(currentContent)
             THEN [lastContent |-> loop.lastContent, stableCount |-> n,
                   done |-> TRUE,
                   response |-> AgentResponse(
                       extractNewContent(baseline, currentContent), TRUE)]
             ELSE [lastContent |-> loop.lastContent, stableCount |-> n,
                   done |-> FALSE, response |-> NoResponse]
    ELSE [lastContent |-> currentContent, stableCount |-> 0,
          done |-> FALSE, response |-> NoResponse]

\* the timeout branch that answers with the snapshot of the last poll
timedOut_lastPolled(loop, baseline, finalContent) ==
    AgentResponse(extractNewContent(baseline, loop.lastContent), FALSE)

\* the code after the loop, finalContent being the capture it takes
timedOut(loop, baseline, finalContent) ==
    AgentResponse(extractNewContent(baseline, finalContent), FALSE)

\* -------------------------------------------- Spec: the state machine API
smVars == <<sm, lastCall, ret>>

orchVars ==
    <<pc, isShuttingDown, proposer, reviewer, stopPc, stops, outcome, fault,
      thrown, agentsReady>>

turnVars == <<response, prompt, inflight>>

waitVars ==
    <<waitPc, lastCaptureContent, captures, lastContent, stableCount,
      waitResult, pollsAtStop>>

detectVars == <<input, verdict, calls>>

vars == <<smVars, orchVars, turnVars, waitVars, detectVars>>

\* One call of a public method: op names it, arg is the target phase of a
\* transition() or the verdict of a processConsensus() (the other arguments
\* are read back from the object), mutated tells whether the call changed
\* the object.  A call that left the object as it was is an observation
\* only: the calls that can follow it are the calls that can follow the
\* state before it, and are explored from there.
Call(op, arg, r) ==
    /\ Len(sm.transitions) < MaxHistory
    /\ lastCall.mutated
    /\ sm' = r.sm
    /\ ret' = r.ret
    /\ lastCall' = [op |-> op, arg |-> arg, mutated |-> r.sm # sm]
    /\ UNCHANGED <<orchVars, turnVars, waitVars, detectVars>>

NoArg == "-"

\* value of pollsAtStop while no stop() was requested
NotStopped == 0 - 1

\* a prompt: the agent it goes to, the round it is built in and the text
\* it embeds
Prompt(to, round, embeds) == [to |-> to, round |-> round, embeds |-> embeds]

NoPrompt == Prompt("none", 0, <<>>)

\* an operation of an agent that run() awaits
Awaited(agent, op) == [agent |-> agent, op |-> op]

\* the objects as their constructors leave them
Constructed ==
    /\ sm \in {NewStateMachine(n) : n \in 0..MaxRounds}
    /\ lastCall = [op |-> "new", arg |-> NoArg, mutated |-> TRUE]
    /\ ret = Void
    /\ pc = "start"
    /\ isShuttingDown = FALSE
    /\ proposer = "null"
    /\ reviewer = "null"
    /\ stopPc = "none"
    /\ stops = 0
    /\ outcome = "running"
    /\ fault = NoError
    /\ thrown = NoError
    /\ agentsReady = "pending"
    /\ response = [agent |-> "none", content |-> <<>>, complete |-> FALSE]
    /\ prompt = NoPrompt
    /\ inflight = {}
    /\ waitPc = "idle"
    /\ lastCaptureContent = EmptyText
    /\ captures = <<>>
    /\ lastContent = EmptyText
    /\ stableCount = 0
    /\ waitResult = NoResponse
    /\ pollsAtStop = NotStopped

Init ==
    /\ Constructed
    /\ input = <<>>
    /\ verdict = newResult(<<>>)
    /\ calls = <<>>

CallTransition ==
    \E to \in DebateState : Call("transition", to, transition(sm, to, "transition"))

CallStart == Call("start", NoArg, start(sm))

CallInitialized == Call("initialized", NoArg, initialized(sm))

CallProposerPrompted == Call("proposerPrompted", NoArg, proposerPrompted(sm))

CallProposerResponded ==
    \E o \in Outputs : Call("proposerResponded", NoArg, proposerResponded(sm, o))

CallReviewerPrompted == Call("reviewerPrompted", NoArg, reviewerPrompted(sm))

CallReviewerResponded ==
    \E o \in Outputs : Call("reviewerResponded", NoArg, reviewerResponded(sm, o))

CallProcessConsensus ==
    \E r \in Results : Call("processConsensus", r, processConsensus(sm, r))

CallError ==
    \E msg \in Messages : Call("error", NoArg, error(sm, msg))

CallStop == Call("stop", NoArg, stop(sm))

Next ==
    \/ CallTransition
    \/ CallStart
    \/ CallInitialized
    \/ CallProposerPrompted
    \/ CallProposerResponded
    \/ CallReviewerPrompted
    \/ CallReviewerResponded
    \/ CallProcessConsensus
    \/ CallError
    \/ CallStop

Spec == Init /\ [][Next]_vars

\* ------------------------------------------ SpecRun: Orchestrator.run()
\* Each action is the code from one await of run() to the next.  A surface
\* or agent operation either returns or raises one of Messages.

\* run(), lines 85-90: the catch block
Catch(m, message) ==
    /\ sm' = error(m, message).sm
    /\ fault' = message
    /\ thrown' = message
    /\ outcome' = "raised"
    /\ pc' = "done"
    /\ inflight' = {}
    /\ UNCHANGED <<lastCall, ret, isShuttingDown, proposer, reviewer, stopPc,
                   stops, agentsReady, response, prompt, waitVars,
                   detectVars>>

\* the operation run() is awaiting raises
Raises == \E message \in Messages : Catch(sm, message)

\* the operation run() is awaiting returns, run() goes on to await `to`
Returns(to) ==
    /\ pc' = to
    /\ UNCHANGED <<smVars, isShuttingDown, proposer, reviewer, stopPc, stops,
                   outcome, fault, thrown, agentsReady, turnVars, waitVars,
                   detectVars>>

\* sendPrompt() of a stopped or never started agent throws before it awaits;
\* agent is the adapter ("proposer" or "reviewer" of p.to) as run() finds it
SendPrompt(m, agent, p, to) ==
    IF agent # "started"
    THEN Catch(m, "Agent not started")
    ELSE /\ sm' = m
         /\ pc' = to
         /\ prompt' = p
         /\ inflight' = {Awaited(p.to, "sendPrompt")}
         /\ UNCHANGED <<lastCall, ret, isShuttingDown, proposer, reviewer,
                        stopPc, stops, outcome, fault, thrown, agentsReady,
                        response,
                        waitVars, detectVars>>

\* sendPrompt() has returned and run() calls waitForResponse() of the agent
Sent(agent, to) ==
    /\ pc' = to
    /\ inflight' = {Awaited(agent, "waitForResponse")}
    /\ UNCHANGED <<smVars, isShuttingDown, proposer, reviewer, stopPc, stops,
                   outcome, fault, thrown, agentsReady, response, prompt,
                   waitVars, detectVars>>

\* what an agent is told before the debate (sendSystemPrompts())
SystemPrompt(to) == Prompt(to, 0, <<"system prompt">>)

\* a proposer prompt that always embeds the raw review text
proposerPrompt_rawReview(m) ==
    Prompt("proposer", m.currentRound,
           IF m.currentRound = 1 THEN <<"initial proposal">>
           ELSE IF Len(m.rounds) = 0 THEN <<"Please revise your proposal.">>
           ELSE m.rounds[Len(m.rounds)].reviewerOutput)

\* handleProposerTurn(), lines 208-217: the prompt of the proposer
proposerPrompt(m) ==
    Prompt("proposer", m.currentRound,
           IF m.currentRound = 1 THEN <<"initial proposal">>
           ELSE IF Len(m.rounds) = 0 THEN <<"Please revise your proposal.">>
           ELSE LET lastRound == m.rounds[Len(m.rounds)]
                IN  IF lastRound.consensus.feedback # Null
                    THEN lastRound.consensus.feedback
                    ELSE lastRound.reviewerOutput)

\* the prompt of the reviewer built from the proposal of the round before
reviewerPrompt_lastRecord(m) ==
    Prompt("reviewer", m.currentRound,
           IF Len(m.rounds) = 0 THEN m.proposerOutput
           ELSE m.rounds[Len(m.rounds)].proposerOutput)

\* handleReviewerTurn(), lines 238-240: the prompt of the reviewer
reviewerPrompt(m) == Prompt("reviewer", m.currentRound, m.proposerOutput)

\* texts an agent answers a turn with
Replies ==
    Outputs \cup { <<"AGREE: YES", "FINAL_ANSWER: Z">>, <<"AGREE: NO">> }

\* responses waitForResponse() hands to a turn: complete or timed out
Responses == {AgentResponse(o, c) : o \in Replies, c \in BOOLEAN}

\* a turn that gives up when the wait timed out
turnResponded_failOnTimeout(m, agent, r) ==
    IF ~r.complete THEN error(m, "Response timed out").sm
    ELSE IF agent = "proposer" THEN proposerResponded(m, r.content).sm
    ELSE reviewerResponded(m, r.content).sm

\* a turn that plays its phase again when the wait timed out
turnResponded_retryOnTimeout(m, agent, r) ==
    IF r.complete
    THEN IF agent = "proposer" THEN proposerResponded(m, r.content).sm
         ELSE reviewerResponded(m, r.content).sm
    ELSE [m EXCEPT !.state = IF agent = "proposer" THEN "proposer_turn"
                             ELSE "reviewer_turn"]

\* handleProposerTurn(), line 227, and handleReviewerTurn(), line 251:
\* what a turn does with the response its wait returned
turnResponded(m, agent, r) ==
    IF agent = "proposer" THEN proposerResponded(m, r.content).sm
    ELSE reviewerResponded(m, r.content).sm

\* runDebateLoop() from the head of its while loop, with the state machine
\* m, to its next await or to the return of run()
runDebateLoop(m) ==
    /\ inflight' = {}
    /\ UNCHANGED <<lastCall, ret, isShuttingDown, proposer, reviewer, stopPc,
                   stops, fault, thrown, agentsReady, response, prompt,
                   waitVars, detectVars>>
    /\ IF isTerminal(m) \/ isShuttingDown
       THEN /\ sm' = m
            /\ pc' = "done"
            /\ outcome' = "returned"
       ELSE /\ outcome' = outcome
            /\ CASE m.state = "proposer_turn" ->
                      sm' = m /\ pc' = "proposerStatus"
                 [] m.state = "reviewer_turn" ->
                      sm' = m /\ pc' = "reviewerStatus"
                 [] m.state = "check_consensus" ->
                      /\ sm' = processConsensus(
                                   m, detectConsensus(m.reviewerOutput)).sm
                      /\ pc' = "loop"
                 [] OTHER ->
                      sm' = m /\ pc' = "loop"

\* run() is called: initialize() up to `await checkTmuxAvailable()`
RunCall ==
    /\ pc = "start"
    /\ sm' = start(sm).sm
    /\ pc' = "checkTmux"
    /\ UNCHANGED <<lastCall, ret, isShuttingDown, proposer, reviewer, stopPc,
                   stops, outcome, fault, thrown, agentsReady, turnVars,
                   waitVars, detectVars>>

CheckTmux ==
    /\ pc = "checkTmux"
    /\ \/ Returns("createSession")
       \/ Catch(sm, "tmux is not installed or not available")

CreateSession ==
    /\ pc = "createSession"
    /\ \/ Returns("initStatus")
       \/ Raises

\* updateStatus() swallows its errors; then both adapters are created
InitStatus ==
    /\ pc = "initStatus"
    /\ proposer' = "created"
    /\ reviewer' = "created"
    /\ pc' = "proposerStart"
    /\ UNCHANGED <<smVars, isShuttingDown, stopPc, stops, outcome, fault,
                   thrown, agentsReady, turnVars, waitVars, detectVars>>

ProposerStart ==
    /\ pc = "proposerStart"
    /\ \/ /\ proposer' = "started"
          /\ pc' = "reviewerStart"
          /\ UNCHANGED <<smVars, isShuttingDown, reviewer, stopPc, stops,
                         outcome, fault, thrown, agentsReady, turnVars,
                         waitVars, detectVars>>
       \/ Raises

ReviewerStart ==
    /\ pc = "reviewerStart"
    /\ \/ /\ reviewer' = "started"
          /\ pc' = "waitReady"
          /\ UNCHANGED <<smVars, isShuttingDown, proposer, stopPc, stops,
                         outcome, fault, thrown, agentsReady, turnVars,
                         waitVars, detectVars>>
       \/ Raises

\* the ways the loop of waitForAgentsReady() ends: both agents reported
\* ready, or maxWait (15 s) went by
Readiness == {"both", "timeout"}

\* waitForAgentsReady() up to its last await: both agents report ready, or
\* the 15 s go by, or a capture of isReady() raises
WaitReady ==
    /\ pc = "waitReady"
    /\ \/ /\ agentsReady' \in Readiness
          /\ pc' = "agentsWaited"
          /\ UNCHANGED <<smVars, isShuttingDown, proposer, reviewer, stopPc,
                         stops, outcome, fault, thrown, turnVars, waitVars,
                         detectVars>>
       \/ (proposer = "started" \/ reviewer = "started") /\ Raises

\* an initialize() that gives up when the agents did not report ready
AgentsWaited_failOnTimeout ==
    /\ pc = "agentsWaited"
    /\ IF agentsReady = "timeout"
       THEN Catch(sm, "Agents not ready")
       ELSE SendPrompt(sm, proposer, SystemPrompt("proposer"),
                       "sysProposerSend")

\* waitForAgentsReady() returns, with a warning after a timeout, and
\* sendSystemPrompts() starts
AgentsWaited ==
    /\ pc = "agentsWaited"
    /\ SendPrompt(sm, proposer, SystemPrompt("proposer"), "sysProposerSend")

SysProposerSend ==
    /\ pc = "sysProposerSend"
    /\ \/ Sent("proposer", "sysProposerWait")
       \/ Raises

SysProposerWait ==
    /\ pc = "sysProposerWait"
    /\ \/ SendPrompt(sm, reviewer, SystemPrompt("reviewer"),
                     "sysReviewerSend")
       \/ Raises

SysReviewerSend ==
    /\ pc = "sysReviewerSend"
    /\ \/ Sent("reviewer", "sysReviewerWait")
       \/ Raises

\* the last await of initialize(): initialized(), then the loop starts
SysReviewerWait ==
    /\ pc = "sysReviewerWait"
    /\ \/ runDebateLoop(initialized(sm).sm)
       \/ Raises

\* a handler has returned: back to the head of the while loop
LoopResume ==
    /\ pc = "loop"
    /\ runDebateLoop(sm)

\* handleProposerTurn() after its updateStatus()
ProposerStatus ==
    /\ pc = "proposerStatus"
    /\ SendPrompt(proposerPrompted(sm).sm, proposer, proposerPrompt(sm),
                  "proposerSend")

ProposerSend ==
    /\ pc = "proposerSend"
    /\ \/ Sent("proposer", "proposerWait")
       \/ Raises

\* waitForResponse() returns a complete or a timed-out response
ProposerWait ==
    /\ pc = "proposerWait"
    /\ \/ \E r \in Responses :
            /\ response' = [agent |-> "proposer", content |-> r.content,
                            complete |-> r.complete]
            /\ sm' = turnResponded(sm, "proposer", r)
            /\ pc' = "loop"
            /\ inflight' = {}
            /\ UNCHANGED <<lastCall, ret, isShuttingDown, proposer, reviewer,
                           stopPc, stops, outcome, fault, thrown,
                           agentsReady, prompt,
                           waitVars, detectVars>>
       \/ Raises

\* handleReviewerTurn() after its updateStatus()
ReviewerStatus ==
    /\ pc = "reviewerStatus"
    /\ SendPrompt(reviewerPrompted(sm).sm, reviewer, reviewerPrompt(sm),
                  "reviewerSend")

ReviewerSend ==
    /\ pc = "reviewerSend"
    /\ \/ Sent("reviewer", "reviewerWait")
       \/ Raises

ReviewerWait ==
    /\ pc = "reviewerWait"
    /\ \/ \E r \in Responses :
            /\ response' = [agent |-> "reviewer", content |-> r.content,
                            complete |-> r.complete]
            /\ sm' = turnResponded(sm, "reviewer", r)
            /\ pc' = "loop"
            /\ inflight' = {}
            /\ UNCHANGED <<lastCall, ret, isShuttingDown, proposer, reviewer,
                           stopPc, stops, outcome, fault, thrown,
                           agentsReady, prompt,
                           waitVars, detectVars>>
       \/ Raises

\* Orchestrator.stop() is called, at any await of run(), before it or after
\* it: the flag, stateMachine.stop(), then the first agent to stop
StopCall ==
    /\ stops < MaxStops
    /\ stopPc \in {"none", "done", "failed"}
    /\ stops' = stops + 1
    /\ isShuttingDown' = TRUE
    /\ sm' = stop(sm).sm
    /\ stopPc' = IF proposer = "started" THEN "stopProposer"
                 ELSE IF reviewer = "started" THEN "stopReviewer"
                 ELSE "done"
    /\ UNCHANGED <<lastCall, ret, pc, proposer, reviewer, outcome, fault,
                   thrown, agentsReady, turnVars, waitVars, detectVars>>

\* proposer.stop() returns (the agent is no longer started) or raises
StopProposer ==
    /\ stopPc = "stopProposer"
    /\ \/ /\ proposer' = "created"
          /\ stopPc' = IF reviewer = "started" THEN "stopReviewer" ELSE "done"
       \/ /\ proposer' = proposer
          /\ stopPc' = "failed"
    /\ UNCHANGED <<smVars, pc, isShuttingDown, reviewer, stops, outcome,
                   fault, thrown, agentsReady, turnVars, waitVars, detectVars>>

StopReviewer ==
    /\ stopPc = "stopReviewer"
    /\ \/ /\ reviewer' = "created"
          /\ stopPc' = "done"
       \/ /\ reviewer' = reviewer
          /\ stopPc' = "failed"
    /\ UNCHANGED <<smVars, pc, isShuttingDown, proposer, stops, outcome,
                   fault, thrown, agentsReady, turnVars, waitVars, detectVars>>

NextRun ==
    \/ RunCall
    \/ CheckTmux
    \/ CreateSession
    \/ InitStatus
    \/ ProposerStart
    \/ ReviewerStart
    \/ WaitReady
    \/ AgentsWaited
    \/ SysProposerSend
    \/ SysProposerWait
    \/ SysReviewerSend
    \/ SysReviewerWait
    \/ LoopResume
    \/ ProposerStatus
    \/ ProposerSend
    \/ ProposerWait
    \/ ReviewerStatus
    \/ ReviewerSend
    \/ ReviewerWait
    \/ StopCall
    \/ StopProposer
    \/ StopReviewer

SpecRun == Init /\ [][NextRun]_vars

\* the event loop runs a continuation that is ready: every awaited operation
\* returns or raises, and each step of run() and of stop() is taken in the end
SpecRunFair == SpecRun /\ WF_vars(NextRun)

\* getFinalResult() that reports the final answer of the first round
getFinalResult_firstRound(m) ==
    [agreed |-> m.consensusReached,
     rounds |-> m.rounds,
     finalAnswer |-> IF Len(m.rounds) = 0 THEN Null
                     ELSE m.rounds[1].consensus.finalAnswer]

\* Orchestrator.getFinalResult(), on the context of the state machine m
getFinalResult(m) ==
    [agreed |-> m.consensusReached,
     rounds |-> m.rounds,
     finalAnswer |-> IF Len(m.rounds) = 0 THEN Null
                     ELSE m.rounds[Len(m.rounds)].consensus.finalAnswer]

\* ------------------------- SpecWait: sendPrompt() and waitForResponse()
\* Each action is the code from one await to the next; capturePane()
\* returns one of Surfaces or raises.

\* sendPrompt(): the baseline is captured, then the prompt is typed
SendPromptCall ==
    /\ waitPc = "idle"
    /\ \E baseline \in Surfaces : lastCaptureContent' = baseline
    /\ waitPc' = "prompted"
    /\ UNCHANGED <<smVars, orchVars, turnVars, detectVars, captures, lastContent,
                   stableCount, waitResult, pollsAtStop>>

\* waitForResponse() is called: its locals, up to the test of the loop
WaitForResponseCall ==
    /\ waitPc = "prompted"
    /\ lastContent' = EmptyText
    /\ stableCount' = 0
    /\ waitPc' = "polling"
    /\ UNCHANGED <<smVars, orchVars, turnVars, detectVars, lastCaptureContent, captures,
                   waitResult, pollsAtStop>>

\* the timeout has not elapsed: one pass of the loop
Poll ==
    /\ waitPc = "polling"
    /\ Len(captures) < MaxPolls
    /\ \E currentContent \in Surfaces :
          LET pass == poll([lastContent |-> lastContent,
                            stableCount |-> stableCount],
                           lastCaptureContent, currentContent)
          IN  /\ captures' = Append(captures, currentContent)
              /\ lastContent' = pass.lastContent
              /\ stableCount' = pass.stableCount
              /\ waitResult' = IF pass.done THEN pass.response ELSE waitResult
              /\ waitPc' = IF pass.done THEN "returned" ELSE "polling"
    /\ UNCHANGED <<smVars, orchVars, turnVars, detectVars, lastCaptureContent,
                   pollsAtStop>>

\* the timeout has elapsed: the capture after the loop, and the return
TimeOut ==
    /\ waitPc = "polling"
    /\ \E finalContent \in Surfaces :
          /\ captures' = Append(captures, finalContent)
          /\ waitResult' = timedOut([lastContent |-> lastContent,
                                     stableCount |-> stableCount],
                                    lastCaptureContent, finalContent)
    /\ waitPc' = "returned"
    /\ UNCHANGED <<smVars, orchVars, turnVars, detectVars, lastCaptureContent,
                   lastContent, stableCount, pollsAtStop>>

\* capturePane() raises: sendPrompt() or waitForResponse() rejects
CaptureRaises ==
    /\ waitPc \in {"idle", "polling"}
    /\ waitPc' = "raised"
    /\ UNCHANGED <<smVars, orchVars, turnVars, detectVars, lastCaptureContent, captures,
                   lastContent, stableCount, waitResult, pollsAtStop>>

NextWait ==
    \/ SendPromptCall
    \/ WaitForResponseCall
    \/ Poll
    \/ TimeOut
    \/ CaptureRaises

InitWait == Init /\ sm.maxRounds = MaxRounds

SpecWait == InitWait /\ [][NextWait]_vars

\* ------------- SpecWaitStop: Orchestrator.stop() during a completion wait
\* handleProposerTurn() has sent its prompt (the baseline is any of
\* Surfaces) and calls waitForResponse()
InitWaitStop ==
    /\ sm = proposerPrompted(
                initialized(start(NewStateMachine(MaxRounds)).sm).sm).sm
    /\ lastCall = [op |-> "new", arg |-> NoArg, mutated |-> TRUE]
    /\ ret = Void
    /\ pc = "proposerWait"
    /\ isShuttingDown = FALSE
    /\ proposer = "started"
    /\ reviewer = "started"
    /\ stopPc = "none"
    /\ stops = 0
    /\ outcome = "running"
    /\ fault = NoError
    /\ thrown = NoError
    /\ agentsReady = "both"
    /\ response = [agent |-> "none", content |-> <<>>, complete |-> FALSE]
    /\ prompt = proposerPrompt(sm)
    /\ inflight = {Awaited("proposer", "waitForResponse")}
    /\ waitPc = "prompted"
    /\ lastCaptureContent \in Surfaces
    /\ captures = <<>>
    /\ lastContent = EmptyText
    /\ stableCount = 0
    /\ waitResult = NoResponse
    /\ pollsAtStop = NotStopped
    /\ input = <<>>
    /\ verdict = newResult(<<>>)
    /\ calls = <<>>

\* Orchestrator.stop() is called while the wait sleeps between two polls:
\* the flag and stateMachine.stop(); nothing of it reaches waitForResponse()
StopDuringWait ==
    /\ waitPc = "polling"
    /\ pc = "proposerWait"
    /\ ~isShuttingDown
    /\ isShuttingDown' = TRUE
    /\ sm' = stop(sm).sm
    /\ stops' = stops + 1
    /\ pollsAtStop' = Len(captures)
    /\ UNCHANGED <<lastCall, ret, pc, proposer, reviewer, stopPc, outcome,
                   fault, thrown, agentsReady, turnVars, detectVars, waitPc,
                   lastCaptureContent,
                   captures, lastContent, stableCount, waitResult>>

\* waitForResponse() has returned: the rest of handleProposerTurn()
WaitReturns ==
    /\ waitPc = "returned"
    /\ pc = "proposerWait"
    /\ response' = [agent |-> "proposer", content |-> waitResult.content,
                    complete |-> waitResult.complete]
    /\ sm' = proposerResponded(sm, waitResult.content).sm
    /\ pc' = "loop"
    /\ inflight' = {}
    /\ UNCHANGED <<lastCall, ret, isShuttingDown, proposer, reviewer, stopPc,
                   stops, outcome, fault, thrown, agentsReady, prompt,
                   waitVars, detectVars>>

\* waitForResponse() has rejected: the catch block of run()
WaitRaises ==
    /\ waitPc = "raised"
    /\ pc = "proposerWait"
    /\ Catch(sm, "Failed to capture pane")

\* the head of the while loop after the turn: the loop ends or goes on to
\* the turn of the reviewer
LoopAfterWait ==
    /\ waitPc = "returned"
    /\ pc = "loop"
    /\ runDebateLoop(sm)

NextWaitStop ==
    \/ WaitForResponseCall
    \/ Poll
    \/ TimeOut
    \/ CaptureRaises
    \/ StopDuringWait
    \/ WaitReturns
    \/ WaitRaises
    \/ LoopAfterWait

SpecWaitStop == InitWaitStop /\ [][NextWaitStop]_vars

\* --------------------------------------- SpecDetect: detectConsensus()
\* the texts detectConsensus() is observed on: every text of at most MaxLen
\* different lines of Lines
Texts ==
    UNION {{t \in [1..n -> Lines] :
               \A i, j \in 1..n : t[i] = t[j] => i = j} : n \in 0..MaxLen}

\* the text of the calls made in between
OtherText == <<"AGREE: NO", "FEEDBACK: revise">>

InitDetect ==
    /\ Constructed
    /\ sm.maxRounds = MaxRounds
    /\ input \in Texts
    /\ verdict = newResult(input)
    /\ calls = <<>>

\* detectConsensus(input) is called and returns
DetectInput ==
    /\ Len(calls) < MaxCalls
    /\ verdict' = detectConsensus(input)
    /\ calls' = Append(calls, input)
    /\ UNCHANGED <<smVars, orchVars, turnVars, waitVars, input>>

\* detectConsensus() is called on another text
DetectOther ==
    /\ Len(calls) < MaxCalls
    /\ OtherText # input
    /\ detectConsensus(OtherText).rawContent = OtherText
    /\ calls' = Append(calls, OtherText)
    /\ UNCHANGED <<smVars, orchVars, turnVars, waitVars, input, verdict>>

NextDetect ==
    \/ DetectInput
    \/ DetectOther

SpecDetect == InitDetect /\ [][NextDetect]_vars

\* ================================================================ claims
Last(q) == q[Len(q)]

\* the call made by this step of Spec
Called(op) == lastCall'.op = op

\* C1: transition(t) with t outside the allowed set of the current phase
\* returns false and leaves the phase unchanged.
C1_InvalidTransitionRejected ==
    [][Called("transition") /\ lastCall'.arg \notin VALID_TRANSITIONS[sm.state]
         => ret' = FALSE /\ sm'.state = sm.state]_vars

\* a transition() has been rejected
C1_Witness ==
    /\ lastCall.op = "transition"
    /\ lastCall.arg \notin VALID_TRANSITIONS[sm.state]
    /\ ret = FALSE
    /\ sm.state = "waiting_reviewer"

\* the table as the specification states it
TableEdges ==
    {<<"idle", "initializing">>,
     <<"initializing", "proposer_turn">>, <<"initializing", "error">>,
     <<"proposer_turn", "waiting_proposer">>, <<"proposer_turn", "error">>,
     <<"proposer_turn", "stopped">>,
     <<"waiting_proposer", "reviewer_turn">>, <<"waiting_proposer", "error">>,
     <<"waiting_proposer", "stopped">>,
     <<"reviewer_turn", "waiting_reviewer">>, <<"reviewer_turn", "error">>,
     <<"reviewer_turn", "stopped">>,
     <<"waiting_reviewer", "check_consensus">>, <<"waiting_reviewer", "error">>,
     <<"waiting_reviewer", "stopped">>,
     <<"check_consensus", "proposer_turn">>, <<"check_consensus", "agreed">>,
     <<"check_consensus", "no_consensus">>, <<"check_consensus", "error">>,
     <<"agreed", "stopped">>, <<"no_consensus", "stopped">>,
     <<"error", "stopped">>}

\* C2: whatever operation is called, a change of the current phase is an
\* edge of the static table.
C2_PhaseChangesAreEdges ==
    [][sm'.state # sm.state => <<sm.state, sm'.state>> \in TableEdges]_vars

\* a debate that went through a round and was stopped after its verdict
C2_Witness ==
    /\ sm.state = "stopped"
    /\ Len(sm.transitions) >= 8

\* C3: processConsensus in check_consensus appends exactly one RoundRecord,
\* whatever the verdict, and its round is the currentRound before the call.
C3_OneRecordPerCheck ==
    [][Called("processConsensus") /\ sm.state = "check_consensus"
         => /\ Len(sm'.rounds) = Len(sm.rounds) + 1
            /\ SubSeq(sm'.rounds, 1, Len(sm.rounds)) = sm.rounds
            /\ Last(sm'.rounds).round = sm.currentRound
            /\ Last(sm'.rounds).consensus = lastCall'.arg]_vars

\* a not-agreed verdict was recorded and the debate went on to round 2
C3_Witness ==
    /\ lastCall.op = "processConsensus"
    /\ ret = "proposer_turn"
    /\ Len(sm.rounds) = 1
    /\ sm.currentRound = 2

\* C4: processConsensus in check_consensus with an agreed verdict moves to
\* agreed and sets consensusReached, whatever currentRound is against
\* maxRounds.
C4_AgreedWins ==
    [][Called("processConsensus") /\ sm.state = "check_consensus"
         /\ lastCall'.arg.agreed
         => /\ sm'.state = "agreed"
            /\ ret' = "agreed"
            /\ sm'.consensusReached]_vars

\* an agreed verdict arrived with currentRound above maxRounds
C4_Witness ==
    /\ lastCall.op = "processConsensus"
    /\ ret = "agreed"
    /\ sm.state = "agreed"
    /\ sm.currentRound > sm.maxRounds

\* C5: processConsensus in check_consensus with a not-agreed verdict: at
\* currentRound = maxRounds the phase becomes no_consensus and currentRound
\* stays; at currentRound < maxRounds the phase becomes proposer_turn and
\* currentRound grows by 1.
C5_NotAgreed ==
    [][Called("processConsensus") /\ sm.state = "check_consensus"
         /\ ~lastCall'.arg.agreed
         => /\ sm.currentRound = sm.maxRounds
                => /\ sm'.state = "no_consensus"
                   /\ ret' = "no_consensus"
                   /\ sm'.currentRound = sm.currentRound
            /\ sm.currentRound < sm.maxRounds
                => /\ sm'.state = "proposer_turn"
                   /\ ret' = "proposer_turn"
                   /\ sm'.currentRound = sm.currentRound + 1]_vars

\* a not-agreed verdict arrived in the last round
C5_Witness ==
    /\ lastCall.op = "processConsensus"
    /\ ret = "no_consensus"
    /\ sm.state = "no_consensus"
    /\ sm.currentRound = sm.maxRounds
    /\ sm.maxRounds >= 1

\* C6: stop() in a non-terminal phase leaves the phase stopped.
C6_StopAlwaysSucceeds ==
    [][Called("stop") /\ ~isTerminal(sm) => sm'.state = "stopped"]_vars

\* C7: error(message) in a non-terminal phase leaves the phase error.
C7_ErrorAlwaysSucceeds ==
    [][Called("error") /\ ~isTerminal(sm) => sm'.state = "error"]_vars

\* C8 as stated: consensusReached is true exactly in phase agreed.
C8_Original == sm.consensusReached <=> sm.state = "agreed"

\* C8 amended: consensusReached is true only in phase agreed or in phase
\* stopped entered from agreed, and a processConsensus that moves the phase
\* to agreed leaves consensusReached true.
C8_ConsensusReached ==
    /\ [](sm.consensusReached
            => \/ sm.state = "agreed"
               \/ /\ sm.state = "stopped"
                  /\ Last(sm.transitions).from = "agreed")
    /\ [][Called("processConsensus") /\ sm.state = "check_consensus"
            /\ sm'.state = "agreed"
            => sm'.consensusReached]_vars

\* an agreed debate was stopped
C8_Witness ==
    /\ sm.consensusReached
    /\ sm.state = "stopped"
    /\ lastCall.op = "stop"

\* C9: once run() has finished, by returning or by raising, the phase is
\* terminal, wherever Orchestrator.stop() arrived.
C9_RunEndsTerminal == outcome # "running" => isTerminal(sm)

\* C10 as stated: when run() ends because an operation raised, it rejects
\* with that error, the phase is error and context.error is its message.
C10_Original ==
    [][outcome = "running" /\ outcome' = "raised"
         => /\ thrown' = fault'
            /\ sm'.state = "error"
            /\ sm'.error = fault']_vars

\* C10 amended: when run() ends because an operation raised, it rejects
\* with that error and context.error is its message; the phase is error,
\* unless Orchestrator.stop() had already moved it to stopped, where it stays.
C10_RaiseRecorded ==
    [][outcome = "running" /\ outcome' = "raised"
         => /\ fault' # NoError
            /\ thrown' = fault'
            /\ sm'.error = fault'
            /\ sm'.state = IF sm.state = "stopped" THEN "stopped" ELSE "error"]_vars

\* an operation raised during a turn of round 2
C10_Witness ==
    /\ outcome = "raised"
    /\ sm.state = "error"
    /\ sm.error = thrown
    /\ sm.currentRound = 2

\* no transition() was called directly: every recorded transition was made
\* by a driving operation, by error() or by stop()
DrivenByOperations(m) ==
    \A i \in 1..Len(m.transitions) : m.transitions[i].event # "transition"

\* C11 as stated: currentRound is 0 only in phase idle or initializing
\* (read for a machine moved by its operations, not by transition() itself).
C11_Original ==
    (sm.currentRound = 0 /\ DrivenByOperations(sm))
        => sm.state \in {"idle", "initializing"}

\* C11 amended: as long as the phase is moved by the driving operations,
\* error() and stop() only, currentRound is 0 only in phase idle or
\* initializing, or in error or stopped after a failure during
\* initialization.
C11_RoundZero ==
    (sm.currentRound = 0 /\ DrivenByOperations(sm))
        => sm.state \in {"idle", "initializing", "error", "stopped"}

\* initialization failed and the debate was stopped, still in round 0
C11_Witness ==
    /\ sm.currentRound = 0
    /\ DrivenByOperations(sm)
    /\ sm.state = "stopped"

\* a round was completed in this step: a RoundRecord was appended
RoundCompleted == Len(sm'.rounds) = Len(sm.rounds) + 1

\* C12 as stated: currentRound never decreases and every completed round
\* increments it by exactly 1.
C12_Original ==
    [][/\ sm'.currentRound >= sm.currentRound
       /\ RoundCompleted => sm'.currentRound = sm.currentRound + 1]_vars

\* C12 amended: currentRound never decreases and no operation raises it by
\* more than 1; only initialized (0 to 1) and processConsensus change it; a
\* completed round increments it exactly when the debate goes on to another
\* round, the round that ends the debate (agreed or no_consensus) does not.
C12_RoundCounter ==
    [][/\ sm'.currentRound \in {sm.currentRound, sm.currentRound + 1}
       /\ sm'.currentRound # sm.currentRound
            => \/ Called("initialized") /\ sm.currentRound = 0
               \/ Called("processConsensus") /\ RoundCompleted
       /\ RoundCompleted
            => (sm'.currentRound = sm.currentRound + 1
                  <=> sm'.state = "proposer_turn")]_vars

\* round 1 was completed without agreement and round 2 is under way
C12_Witness ==
    /\ sm.currentRound = 2
    /\ Len(sm.rounds) = 1
    /\ sm.state = "waiting_proposer"

\* the events processConsensus() records its transitions with
ConsensusEvents == {"consensus_reached", "max_rounds_reached", "next_round"}

\* number of consensus checks completed: transitions out of check_consensus
\* that processConsensus() made
ChecksCompleted(m) ==
    Cardinality({i \in 1..Len(m.transitions) :
                    /\ m.transitions[i].from = "check_consensus"
                    /\ m.transitions[i].event \in ConsensusEvents})

\* C13: the length of rounds is the number of consensus checks completed,
\* and every RoundRecord carries a verdict.
C13_RoundsCountChecks ==
    /\ Len(sm.rounds) = ChecksCompleted(sm)
    /\ \A i \in 1..Len(sm.rounds) : sm.rounds[i].consensus \in Results

\* a debate ended without consensus after its one check and was stopped
C13_Witness ==
    /\ Len(sm.rounds) = 1
    /\ ChecksCompleted(sm) = 1
    /\ sm.state = "stopped"
    /\ ~sm.consensusReached

\* the driving operations that return a boolean, with their source phase
SourcePhase ==
    [start |-> "idle",
     initialized |-> "initializing",
     proposerPrompted |-> "proposer_turn",
     proposerResponded |-> "waiting_proposer",
     reviewerPrompted |-> "reviewer_turn",
     reviewerResponded |-> "waiting_reviewer"]

\* the call of this step was a driving operation outside its source phase
BooleanOpMisplaced ==
    /\ lastCall'.op \in DOMAIN SourcePhase
    /\ sm.state # SourcePhase[lastCall'.op]

ConsensusMisplaced ==
    /\ Called("processConsensus")
    /\ sm.state # "check_consensus"

\* phase, currentRound, both texts, consensusReached and rounds are as before
FrameKept ==
    /\ sm'.state = sm.state
    /\ sm'.currentRound = sm.currentRound
    /\ sm'.proposerOutput = sm.proposerOutput
    /\ sm'.reviewerOutput = sm.reviewerOutput
    /\ sm'.consensusReached = sm.consensusReached
    /\ sm'.rounds = sm.rounds

\* C14 as stated: a driving operation outside its source phase reports
\* failure (a value no accepted call returns) and changes nothing.
C14_Original ==
    [][/\ BooleanOpMisplaced => ret' = FALSE /\ FrameKept
       /\ ConsensusMisplaced
            => /\ ret' \notin {"agreed", "no_consensus", "proposer_turn"}
               /\ FrameKept]_vars

\* C14 amended: outside its source phase a driving operation changes
\* nothing; start, initialized, proposerPrompted, proposerResponded,
\* reviewerPrompted and reviewerResponded return false, processConsensus
\* returns the unchanged current phase.
C14_MisplacedIsNoOp ==
    [][/\ BooleanOpMisplaced => ret' = FALSE /\ FrameKept
       /\ ConsensusMisplaced => ret' = sm.state /\ FrameKept]_vars

\* processConsensus was called in proposer_turn and returned proposer_turn
C14_Witness ==
    /\ lastCall.op = "processConsensus"
    /\ ~lastCall.mutated
    /\ ret = "proposer_turn"
    /\ sm.state = "proposer_turn"
    /\ sm.currentRound = 1

\* the await of run() that is the completion wait of a turn of agent a
TurnWait(a) == IF a = "proposer" THEN "proposerWait" ELSE "reviewerWait"

\* the completion wait of a turn of agent a returns in this step
WaitReturned(a) ==
    /\ pc = TurnWait(a)
    /\ pc' = "loop"
    /\ response'.agent = a

RoundOpens == {"initialized", "next_round"}

\* the proposal of the round in progress has been stored: a
\* proposer_responded is recorded after the event that opened the round
ProposalStored(m) ==
    \E i \in 1..Len(m.transitions) :
        /\ m.transitions[i].event = "proposer_responded"
        /\ \A j \in (i + 1)..Len(m.transitions) :
              m.transitions[j].event \notin RoundOpens

\* the prompt of the reviewer's turn is sent in this step
ReviewerPromptSent ==
    /\ pc = "reviewerStatus"
    /\ pc' = "reviewerSend"

\* C20: run() awaits at most one prompt-send or completion wait at a time,
\* over both agents; and the reviewer prompt of round N is sent with nothing
\* else awaited, after the proposal of round N was returned by the
\* proposer's wait and stored, and embeds exactly the stored text.
C20_TurnsSequential ==
    [][/\ Cardinality(inflight') <= 1
       /\ ReviewerPromptSent
            => /\ inflight = {}
               /\ inflight' = {Awaited("reviewer", "sendPrompt")}
               /\ prompt'.to = "reviewer"
               /\ prompt'.round = sm.currentRound
               /\ ProposalStored(sm)
               /\ response.agent = "proposer"
               /\ prompt'.embeds = response.content
               /\ prompt'.embeds = sm.proposerOutput]_vars

\* the reviewer of round 2 is being asked about a proposal that is not the
\* proposal of round 1
C20_Witness ==
    /\ pc = "reviewerSend"
    /\ inflight = {Awaited("reviewer", "sendPrompt")}
    /\ prompt.to = "reviewer"
    /\ prompt.round = 2
    /\ prompt.embeds = sm.proposerOutput
    /\ sm.rounds[1].proposerOutput # prompt.embeds

\* the snapshot before snapshot i of caps: waitForResponse() starts from
\* the empty string
Previous(caps, i) == IF i = 1 THEN EmptyText ELSE caps[i - 1]

\* waitForResponse() has returned complete=true in the state / this step
ReturnedComplete == waitPc = "returned" /\ waitResult.complete

ReturnedIncomplete == waitPc = "returned" /\ ~waitResult.complete

\* a pass of the polling loop was made in this step (not the capture that
\* follows the timeout)
Polled ==
    /\ Len(captures') = Len(captures) + 1
    /\ ~(waitPc' = "returned" /\ ~waitResult'.complete)

\* C16: waitForResponse returns complete=true only if, at the returning
\* poll, the snapshot was identical to the previous snapshot for the last
\* stabilityThreshold (3) polls and one of its last 5 lines is the ready
\* prompt; a poll whose snapshot differs from the previous one resets the
\* counter of unchanged polls to zero.
C16_CompleteOnlyStableAndReady ==
    [][/\ (waitPc' = "returned" /\ waitResult'.complete)
            => LET n == Len(captures')
               IN  /\ n > stabilityThreshold
                   /\ stableCount' >= stabilityThreshold
                   /\ \A i \in (n - stabilityThreshold + 1)..n :
                         captures'[i] = captures'[i - 1]
                   /\ \E i \in 1..Len(captures'[n]) :
                         /\ i > Len(captures'[n]) - 5
                         /\ captures'[n][i] = ">"
       /\ (Polled /\ captures'[Len(captures')]
                        # Previous(captures', Len(captures')))
            => /\ stableCount' = 0
               /\ waitPc' = "polling"]_vars

\* a response was complete at poll 5: the pane changed between the first
\* two polls and stood still from the second on
C16_Witness ==
    /\ ReturnedComplete
    /\ Len(captures) = 5
    /\ captures[1] # captures[2]
    /\ stableCount = stabilityThreshold

\* number of the last poll that saw the text change (0 when none did: the
\* pane was empty at every poll)
LastChange(caps) ==
    LET changes == {i \in 1..Len(caps) : caps[i] # Previous(caps, i)}
    IN  IF changes = {} THEN 0
        ELSE CHOOSE i \in changes : \A j \in changes : j <= i

\* C17: when the text of the pane stops changing at poll k (poll k is the
\* last one that sees a change) and its tail shows the ready prompt,
\* waitForResponse returns complete=true at poll stabilityThreshold + k:
\* it has returned once that poll is made, and it never returns
\* complete=true at another poll.
C17_ReturnsAtThresholdPlusK ==
    /\ ReturnedComplete
          => Len(captures) = stabilityThreshold + LastChange(captures)
    /\ (waitPc = "polling" /\ Len(captures) > 0)
          => ~(/\ Len(captures) >= stabilityThreshold + LastChange(captures)
               /\ isResponseComplete(captures[Len(captures)]))

\* the pane showed the finished response from the first poll on: k = 1
C17_Witness ==
    /\ ReturnedComplete
    /\ LastChange(captures) = 1
    /\ Len(captures) = stabilityThreshold + 1

NewSinceBaseline(baseline, final) ==
    joinTrim(popPrompts(SubSeq(final, Len(baseline) + 1, Len(final))))

\* C19: the content waitForResponse returns ends with no ready prompt and,
\* the baseline not being empty, is the text past the baseline only,
\* whatever the lengths of the baseline and of the final snapshot.
C19_OnlyNewContent ==
    waitPc = "returned"
        => /\ ~matchesPrompt(waitResult.content[Len(waitResult.content)])
           /\ lastCaptureContent # EmptyText
                => waitResult.content
                     = NewSinceBaseline(lastCaptureContent,
                                        captures[Len(captures)])

\* polls the wait has made since stop() was requested
PollsSinceStop == Len(captures) - pollsAtStop

\* C21: once stop() is requested during a completion wait, the wait makes
\* at most one further poll before the loop of run() has ended.
C21_StopSeenWithinOnePoll ==
    (isShuttingDown /\ waitPc = "polling") => PollsSinceStop <= 1

\* run() has returned the context and stop() was never requested
RunReturned ==
    /\ pc = "done"
    /\ outcome = "returned"
    /\ stops = 0

\* the reviewer of the scenario: not agreed in round 1, agreed in round 2
ReviewerSaysNoThenYes ==
    \A i \in 1..Len(sm.rounds) :
        sm.rounds[i].reviewerOutput
            = IF i = 1 THEN <<"AGREE: NO", "FEEDBACK: revise">>
              ELSE <<"AGREE: YES", "FINAL_ANSWER: Z">>

\* C22: run with maxRounds = 2 and a reviewer that answers
\* 'AGREE: NO / FEEDBACK: revise' in round 1 and
\* 'AGREE: YES / FINAL_ANSWER: Z' in round 2, the debate ends in phase
\* agreed with exactly 2 round records and the final answer Z, that of the
\* verdict of the last round.
C22_AgreedInRoundTwo ==
    (RunReturned /\ sm.maxRounds = 2 /\ ReviewerSaysNoThenYes)
        => /\ sm.state = "agreed"
           /\ Len(sm.rounds) = 2
           /\ getFinalResult(sm).agreed
           /\ getFinalResult(sm).finalAnswer = <<"Z">>
           /\ getFinalResult(sm).finalAnswer
                = sm.rounds[2].consensus.finalAnswer

\* the scenario has been played to its end
C22_Witness ==
    /\ RunReturned
    /\ sm.maxRounds = 2
    /\ ReviewerSaysNoThenYes
    /\ Len(sm.rounds) = 2
    /\ sm.state = "agreed"
    /\ sm.rounds[1].consensus.feedback = <<"revise">>

\* C23: for every maxRounds >= 1, a debate whose verdict is not-agreed in
\* every round ends in phase no_consensus with consensusReached false and
\* exactly maxRounds round records.
C23_ExhaustedAfterMaxRounds ==
    (/\ RunReturned
     /\ sm.maxRounds >= 1
     /\ \A i \in 1..Len(sm.rounds) : ~sm.rounds[i].consensus.agreed)
        => /\ sm.state = "no_consensus"
           /\ ~sm.consensusReached
           /\ Len(sm.rounds) = sm.maxRounds

\* a debate of the largest maxRounds was exhausted
C23_Witness ==
    /\ RunReturned
    /\ sm.maxRounds = MaxRounds
    /\ sm.state = "no_consensus"
    /\ Len(sm.rounds) = MaxRounds
    /\ \A i \in 1..Len(sm.rounds) : ~sm.rounds[i].consensus.agreed

\* detectConsensus(input) has been called: verdict is what it returned
Detected == \E i \in 1..Len(calls) : calls[i] = input

\* the text has a line `AGREE: YES` or `AGREE: NO`
ExplicitAgree(t) == \E i \in 1..Len(t) : t[i] \in {"AGREE: YES", "AGREE: NO"}

\* number of the labeled sections REASON, FINAL_ANSWER, FEEDBACK in the text
Sections(t) ==
    Cardinality({m \in {"REASON", "FINAL_ANSWER", "FEEDBACK"} :
                    \E i \in 1..Len(t) : marker(t[i]) = m})

Positive(t) == \E i \in 1..Len(t) : t[i] = "Looks good, approved"

Negative(t) == \E i \in 1..Len(t) : t[i] = "I reject this"

C25_FieldsFollowAgreed ==
    Detected
        => /\ verdict.finalAnswer # Null => verdict.agreed
           /\ verdict.feedback # Null => ~verdict.agreed

\* C26: confidence lies in [0, 1] (0..100 hundredths); with an explicit
\* AGREE marker it is 0.4 plus 0.2 for each of the sections REASON,
\* FINAL_ANSWER, FEEDBACK found, and agreed is what the marker says, whatever
\* agreement phrases the text has.
C26_ExplicitConfidence ==
    Detected
        => /\ verdict.confidence \in 0..100
           /\ ExplicitAgree(input)
                => /\ verdict.confidence = 40 + 20 * Sections(input)
                   /\ verdict.agreed
                        = (\E i \in 1..Len(input) :
                              /\ input[i] = "AGREE: YES"
                              /\ \A j \in 1..(i - 1) : input[j] # "AGREE: NO")

\* the marker says NO, a phrase says yes: the marker wins at 0.6
C26_Witness ==
    /\ Detected
    /\ ExplicitAgree(input)
    /\ Positive(input)
    /\ ~Negative(input)
    /\ ~verdict.agreed
    /\ verdict.confidence = 60

\* C27: with no explicit AGREE marker and phrases of exactly one polarity,
\* agreed is that polarity and confidence is max(0.3, c x 0.7), c being 0.2
\* for each labeled section; it lies in [0.3, 1.0).
C27_SemanticFallback ==
    (Detected /\ ~ExplicitAgree(input) /\ Positive(input) # Negative(input))
        => /\ verdict.agreed = Positive(input)
           /\ verdict.confidence
                = IF 14 * Sections(input) > 30 THEN 14 * Sections(input)
                  ELSE 30
           /\ verdict.confidence \in 30..99

\* approval was inferred from a phrase, over three labeled sections
C27_Witness ==
    /\ Detected
    /\ ~ExplicitAgree(input)
    /\ Positive(input)
    /\ Sections(input) = 3
    /\ verdict.agreed
    /\ verdict.confidence = 42

\* a state machine that awaits the verdict of round r of n rounds
Checking(n, r) ==
    [NewStateMachine(n) EXCEPT !.state = "check_consensus",
                               !.currentRound = r]

\* C28: with no explicit AGREE marker and both polarities or none, the
\* outcome is ambiguous, no error: agreed is false and confidence is the sum
\* of the labeled sections, 0.2 each; processConsensus then continues with
\* another round, or exhausts the debate in its last round.
C28_AmbiguousIsNotAgreed ==
    (Detected /\ ~ExplicitAgree(input) /\ Positive(input) = Negative(input))
        => /\ ~verdict.agreed
           /\ verdict.confidence = 20 * Sections(input)
           /\ \A n \in 1..MaxRounds : \A r \in 1..n :
                 LET after == processConsensus(Checking(n, r), verdict)
                 IN  /\ after.ret = IF r < n THEN "proposer_turn"
                                    ELSE "no_consensus"
                     /\ after.sm.state = after.ret
                     /\ after.sm.error = NoError
                     /\ ~after.sm.consensusReached

\* phrases of both polarities and one labeled section
C28_Witness ==
    /\ Detected
    /\ ~ExplicitAgree(input)
    /\ Positive(input)
    /\ Negative(input)
    /\ ~verdict.agreed
    /\ verdict.confidence = 20

\* the lines of a section of marker m carry no marker of another field
OwnLinesOnly(section, m) ==
    section # Null
        => \A i \in 1..Len(section) : marker(section[i]) \in {"", m}

\* C29: whatever the order of the fields, no extracted section has the
\* marker or the value of another field; and
\* 'REASON: ok / FINAL_ANSWER: Z / AGREE: YES' yields reason ok, final
\* answer Z, agreed, no feedback and confidence >= 0.8.
C29_FieldsDoNotBleed ==
    Detected
        => /\ OwnLinesOnly(verdict.reason, "REASON")
           /\ OwnLinesOnly(verdict.finalAnswer, "FINAL_ANSWER")
           /\ OwnLinesOnly(verdict.feedback, "FEEDBACK")
           /\ input = <<"REASON: ok", "FINAL_ANSWER: Z", "AGREE: YES">>
                => /\ verdict.reason = <<"ok">>
                   /\ verdict.finalAnswer = <<"Z">>
                   /\ verdict.agreed
                   /\ verdict.feedback = Null
                   /\ verdict.confidence >= 80

\* run() has finished, by returning or by raising
RunFinished == outcome # "running"

\* run() always finishes: no phase is repeated forever
RunTerminates == <>RunFinished

\* C30: under fairness, with every awaited operation returning and every
\* wait ending, run() with maxRounds >= 1 always finishes, and it finishes
\* in a terminal phase after at most maxRounds rounds.
C30_RunReachesTerminalPhase ==
    sm.maxRounds >= 1
        => <>(/\ RunFinished
              /\ isTerminal(sm)
              /\ Len(sm.rounds) <= sm.maxRounds)

\* a step of run() that sends the turn prompt of an agent
SendsTurnPrompt(agent) ==
    /\ pc \in {"proposerStatus", "reviewerStatus"}
    /\ pc' \in {"proposerSend", "reviewerSend"}
    /\ prompt'.to = agent

C32_SendThenTransition ==
    stops = 0
        => /\ pc = "proposerSend" => sm.state = "proposer_turn"
           /\ pc = "reviewerSend" => sm.state = "reviewer_turn"

\* C33: the proposer's prompt of round 1 asks for an initial proposal; the
\* proposer's prompt of a round N > 1 embeds the feedback of the verdict of
\* round N - 1, the last record, when it is not null, and the raw review
\* text of round N - 1 otherwise.
C33_PromptEmbedsFeedback ==
    (prompt.to = "proposer" /\ prompt.round >= 1)
        => IF prompt.round = 1
           THEN prompt.embeds = <<"initial proposal">>
           ELSE /\ Len(sm.rounds) >= prompt.round - 1
                /\ LET before == sm.rounds[prompt.round - 1]
                   IN  /\ before.round = prompt.round - 1
                       /\ prompt.embeds
                            = IF before.consensus.feedback # Null
                              THEN before.consensus.feedback
                              ELSE before.reviewerOutput

\* round 2 is asked with the feedback the reviewer gave in round 1, which is
\* not the whole review text
C33_Witness ==
    /\ pc = "proposerSend"
    /\ prompt.to = "proposer"
    /\ prompt.round = 2
    /\ sm.rounds[1].consensus.feedback # Null
    /\ prompt.embeds = sm.rounds[1].consensus.feedback
    /\ prompt.embeds # sm.rounds[1].reviewerOutput

\* a step of run() itself, no stop() requested so far, after the wait for
\* the agents timed out
StepAfterReadyTimeout(at) ==
    /\ pc = at
    /\ pc' # at
    /\ agentsReady = "timeout"
    /\ stops = 0

\* C34: the wait for the agents' ready reports is not fatal.  When it timed
\* out, initialize() goes on as after a ready report: it sends the role
\* prompt of the proposer, then (the operations awaited in between
\* returning) that of the reviewer, and then enters proposer_turn with
\* currentRound = 1 and no error, without raising.
C34_ReadyTimeoutNotFatal ==
    [][/\ StepAfterReadyTimeout("agentsWaited")
          => /\ outcome' = "running"
             /\ pc' = "sysProposerSend"
             /\ prompt' = SystemPrompt("proposer")
             /\ sm' = sm
       /\ (StepAfterReadyTimeout("sysProposerWait") /\ outcome' = "running")
          => /\ prompt' = SystemPrompt("reviewer")
             /\ sm' = sm
       /\ (StepAfterReadyTimeout("sysReviewerWait") /\ outcome' = "running")
          => /\ sm'.state = "proposer_turn"
             /\ sm'.currentRound = 1
             /\ sm'.error = NoError
             /\ pc' = "proposerStatus"]_vars

\* the agents never reported ready and the first turn is about to start
C34_Witness ==
    /\ agentsReady = "timeout"
    /\ stops = 0
    /\ pc = "proposerStatus"
    /\ sm.state = "proposer_turn"
    /\ sm.currentRound = 1
    /\ prompt = SystemPrompt("reviewer")

\* C35: once stop() has been requested, run() sends no prompt to an agent
\* and starts no completion wait any more, whatever it was doing when the
\* request came.
C35_QuietAfterStop ==
    [][isShuttingDown => (inflight' = inflight \/ inflight' = {})]_vars

\* C36: the error field of the context is populated only if the state
\* machine has entered phase error at some point; an error(message) whose
\* transition is rejected leaves the context as it was.
C36_ErrorOnlyAfterFailed ==
    sm.error # NoError
        => \E i \in 1..Len(sm.transitions) : sm.transitions[i].to = "error"

\* C37: a terminal phase (agreed, no_consensus, error, stopped) is never
\* left for a non-terminal one, whatever is called; stopped is never left at
\* all; and in a terminal phase currentRound, the stored proposal and review
\* texts, rounds and consensusReached no longer change.
C37_TerminalIsFinal ==
    [][isTerminal(sm)
          => /\ isTerminal(sm')
             /\ sm.state = "stopped" => sm'.state = "stopped"
             /\ sm'.currentRound = sm.currentRound
             /\ sm'.proposerOutput = sm.proposerOutput
             /\ sm'.reviewerOutput = sm.reviewerOutput
             /\ sm'.rounds = sm.rounds
             /\ sm'.consensusReached = sm.consensusReached]_vars

\* a call made after the debate was agreed was refused
C37_Witness ==
    /\ sm.state = "agreed"
    /\ sm.consensusReached
    /\ Len(sm.rounds) = 1
    /\ lastCall.op \in {"transition", "proposerResponded", "processConsensus"}
    /\ ~lastCall.mutated

\* the phases of a round in progress
RoundPhases ==
    {"proposer_turn", "waiting_proposer", "reviewer_turn",
     "waiting_reviewer", "check_consensus"}

\* the bookkeeping of rounds C38 states, for the state machine m
RoundBookkeeping(m) ==
    /\ m.currentRound <= m.maxRounds
    /\ Len(m.rounds) <= m.maxRounds
    /\ \A i \in 1..Len(m.rounds) : m.rounds[i].round = i
    /\ m.state \in RoundPhases => Len(m.rounds) = m.currentRound - 1
    /\ m.state \in {"agreed", "no_consensus"}
         => Len(m.rounds) = m.currentRound

AgreedRecords(m) ==
    {i \in 1..Len(m.rounds) : m.rounds[i].consensus.agreed}

\* C39: at most one RoundRecord has an agreed verdict, and it is the last
\* one, so that none was appended after it; consensusReached is true exactly
\* when the last record's verdict is agreed.
C39_AgreedRecordIsLast ==
    /\ Cardinality(AgreedRecords(sm)) <= 1
    /\ AgreedRecords(sm) \subseteq {Len(sm.rounds)}
    /\ sm.consensusReached <=> AgreedRecords(sm) # {}

\* a round without agreement was followed by the round that agreed
C39_Witness ==
    /\ Len(sm.rounds) = 2
    /\ AgreedRecords(sm) = {2}
    /\ sm.consensusReached
    /\ sm.state = "agreed"

\* the recorded transitions of m form a chain from idle to the phase of m
Chain(m) ==
    LET t == m.transitions
    IN  /\ Len(t) = 0 => m.state = "idle"
        /\ Len(t) > 0 => t[1].from = "idle" /\ t[Len(t)].to = m.state
        /\ \A i \in 2..Len(t) : t[i].from = t[i - 1].to

\* C40: the transition history is a chain: it starts at idle, each entry
\* starts where the one before ended, and it ends at the current phase.  A
\* successful transition records exactly one entry and fires exactly one
\* state-change notification, with its two phases; a rejected one records
\* and fires nothing.
C40_HistoryIsChain ==
    [][/\ Chain(sm')
       /\ IF sm'.state # sm.state
          THEN /\ sm'.transitions
                    = Append(sm.transitions,
                             [from |-> sm.state, to |-> sm'.state,
                              event |-> Last(sm'.transitions).event])
               /\ sm'.notified
                    = Append(sm.notified,
                             [from |-> sm.state, to |-> sm'.state])
          ELSE /\ sm'.transitions = sm.transitions
               /\ sm'.notified = sm.notified]_vars

\* a transition was accepted, and the one asked for after it was rejected
C40_Witness ==
    /\ lastCall.op = "transition"
    /\ ret = FALSE
    /\ Len(sm.transitions) = 2
    /\ Len(sm.notified) = 2
    /\ sm.state = "proposer_turn"

====
